---- MODULE Spec2Model ----
(***************************************************************************)
(* react-query-key-manager: the QueryKeyManager registry (src/index.ts),   *)
(* its static state `registry` / `keyNames`, the operations create,        *)
(* getQueryKeys, clearRegistry and the helper migrateLegacyKeys.           *)
(*                                                                         *)
(* JavaScript strings are sequences of one-character strings, so that the  *)
(* template literal `${prefix}.${key}` is a real concatenation and two     *)
(* different (prefix, key) pairs can produce the same path.                *)
(* JavaScript objects live in a heap and are named by references, so that  *)
(* `{ ...this.registry }`, Object.freeze and `this.registry = {}` keep     *)
(* their meaning (copy, freeze, fresh object).                             *)
(***************************************************************************)
EXTENDS Integers, Sequences, FiniteSets, TLC

VARIABLES
    heap,          \* reference -> object: [props, frozen]
    registryRef,   \* QueryKeyManager.registry
    keyNames,      \* QueryKeyManager.keyNames
    nodeEnv,       \* process.env.NODE_ENV
    heldRef,       \* the snapshot the caller got from its last getQueryKeys()
    call,          \* the last call: arguments and outcome
    clearedNames,  \* history: the names keyNames held at the last clearRegistry()
    calls          \* number of calls made

vars == <<heap, registryRef, keyNames, nodeEnv, heldRef, call, clearedNames, calls>>

(***************************************************************************)
(* Bounds of the model.                                                    *)
(***************************************************************************)
\* a run makes at most this many calls
MaxCalls == 4
\* a legacy-key argument is a string or an array of at most this many strings
MaxLegacyKeys == 2

(***************************************************************************)
(* Strings.                                                                *)
(***************************************************************************)
Dot == <<".">>
Comma == <<",">>

\* namespace names: "a", "a.b" (dot notation, as the JSDoc recommends), "b"
NameA == <<"a">>
NameAB == <<"a", ".", "b">>
NameB == <<"b">>
Names == {NameA, NameAB, NameB}

\* keys of the trees
KeyB == <<"b">>
KeyC == <<"c">>
KeyBC == <<"b", ".", "c">>
KeyM == <<"m">>

\* free-standing legacy identifiers
PathABC == <<"a", ".", "b", ".", "c">>
OldKey == <<"o", "l", "d">>
ValueOfKey == <<"v", "a", "l", "u", "e", "O", "f">>

\* property names every plain object inherits from Object.prototype
ObjectPrototypeKeys == {ValueOfKey}

(***************************************************************************)
(* Values: builders, nested trees, inert leaves.                           *)
(***************************************************************************)
NoBuilder == "undefined"
Native == "native code"

\* the query key a builder returns for one argument
BuilderBody == [f |-> <<"user", "profile">>,
                g |-> <<"admin", "users", "list">>,
                h |-> <<"post", "detail">>]

Invoke(fn, arg) == BuilderBody[fn] \o <<arg>>

FnValue(fn) == [typeof |-> "function", truthy |-> TRUE, fn |-> fn, entries |-> <<>>]
ObjValue(es) == [typeof |-> "object", truthy |-> TRUE, fn |-> NoBuilder, entries |-> es]
NullValue == [typeof |-> "object", truthy |-> FALSE, fn |-> NoBuilder, entries |-> <<>>]
StrValue == [typeof |-> "string", truthy |-> TRUE, fn |-> NoBuilder, entries |-> <<>>]
ZeroValue == [typeof |-> "number", truthy |-> FALSE, fn |-> NoBuilder, entries |-> <<>>]
Undefined == [typeof |-> "undefined", truthy |-> FALSE, fn |-> NoBuilder, entries |-> <<>>]

\* { c: f }
TreeFlat == ObjValue(<< <<KeyC, FnValue("f")>> >>)
\* { b: { c: g } }
TreeNested == ObjValue(<< <<KeyB, ObjValue(<< <<KeyC, FnValue("g")>> >>)>> >>)
\* { "b.c": f, b: { c: g, m: "x" }, m: null }
TreeMixed ==
    ObjValue(<< <<KeyBC, FnValue("f")>>,
                <<KeyB, ObjValue(<< <<KeyC, FnValue("g")>>, <<KeyM, StrValue>> >>)>>,
                <<KeyM, NullValue>> >>)
\* { m: "x", b: { m: 0 }, c: null }
TreeInert ==
    ObjValue(<< <<KeyM, StrValue>>,
                <<KeyB, ObjValue(<< <<KeyM, ZeroValue>> >>)>>,
                <<KeyC, NullValue>> >>)
\* a bare builder passed as the key map
TreeFn == FnValue("h")

Trees == {TreeFlat, TreeNested, TreeMixed, TreeInert, TreeFn}

(***************************************************************************)
(* Objects and the heap.                                                   *)
(***************************************************************************)
NoRef == 0
ObjIds == 1..2

EmptyProps == [p \in {} |-> NoBuilder]

\* obj[key] = value on a plain object
Put(props, key, value) ==
    [p \in (DOMAIN props) \cup {key} |-> IF p = key THEN value ELSE props[p]]

\* delete obj[key]
Remove(props, key) == [p \in (DOMAIN props) \ {key} |-> props[p]]

\* obj[key]: own property, else inherited from Object.prototype, else undefined
Lookup(props, key) ==
    IF key \in DOMAIN props THEN props[key]
    ELSE IF key \in ObjectPrototypeKeys THEN Native
    ELSE NoBuilder

Truthy(v) == v # NoBuilder

\* the reference a new object literal gets: one that names no object
\* still referenced once the statement has run
NewRef(live) == CHOOSE r \in ObjIds \ live : \A q \in ObjIds \ live : r <= q

registry == heap[registryRef].props

(***************************************************************************)
(* process.env.NODE_ENV                                                    *)
(***************************************************************************)
NodeEnvValues == {"production", "development", "test"}

\* NODE_ENV not set: process.env.NODE_ENV is undefined
UnsetEnv == "undefined"
\* also a value no mode is documented for, and no value at all
AnyNodeEnvValues == NodeEnvValues \cup {"staging", UnsetEnv}

\* mutation: strict only for the values documented as strict
IsStrict_recognisedOnly == nodeEnv \in {"development", "test"}

\* mutation: strict only when NODE_ENV is 'development'
IsStrict_developmentOnly == nodeEnv = "development"

IsStrict == nodeEnv # "production"

(***************************************************************************)
(* The record of the last call: its arguments and its outcome.             *)
(***************************************************************************)
NoError == [kind |-> "none", key |-> <<>>]
\* new Error(`QueryKeyManager: Key name "${name}" already exists`)
DuplicateError(name) == [kind |-> "Key name already exists", key |-> name]
\* new Error(`Legacy key ${legacyKey} conflicts with new keys`)
ConflictError(key) == [kind |-> "Legacy key conflicts with new keys", key |-> key]
\* an assignment to a frozen object in strict-mode code
FrozenError(key) == [kind |-> "TypeError", key |-> key]

Returned(op, name, keyMap, legacyKey, newBuilder, ret, warned) ==
    [op |-> op, name |-> name, keyMap |-> keyMap, legacyKey |-> legacyKey,
     newBuilder |-> newBuilder, outcome |-> "return", ret |-> ret,
     error |-> NoError, warned |-> warned]

Thrown(op, name, keyMap, legacyKey, newBuilder, error, warned) ==
    [op |-> op, name |-> name, keyMap |-> keyMap, legacyKey |-> legacyKey,
     newBuilder |-> newBuilder, outcome |-> "throw", ret |-> Undefined,
     error |-> error, warned |-> warned]

NoCall == Returned("none", <<>>, Undefined, <<>>, NoBuilder, Undefined, 0)

Init ==
    /\ heap = [r \in {1} |-> [props |-> EmptyProps, frozen |-> FALSE]]
    /\ registryRef = 1
    /\ keyNames = {}
    /\ nodeEnv \in NodeEnvValues
    /\ heldRef = NoRef
    /\ call = NoCall
    /\ clearedNames = {}
    /\ calls = 0

(***************************************************************************)
(* QueryKeyManager.create                                                  *)
(***************************************************************************)
RECURSIVE register(_, _, _)
RECURSIVE registerEntries(_, _, _)

\* the closure `register` of create
register(reg, prefix, node) ==
    IF node.typeof = "function"
    THEN Put(reg, prefix, node.fn)
    ELSE registerEntries(reg, prefix, node.entries)

RECURSIVE registerEntries_registersNonObjects(_, _, _)
\* mutation: the loop tests "not an object" where it should test "a function"
registerEntries_registersNonObjects(reg, prefix, es) ==
    IF es = <<>> THEN reg
    ELSE LET key == es[1][1]
             value == es[1][2]
             fullKey == prefix \o Dot \o key
             next == IF value.typeof # "object"
                     THEN Put(reg, fullKey, value.fn)
                     ELSE IF value.truthy /\ value.typeof = "object"
                          THEN register(reg, fullKey, value)
                          ELSE reg
         IN registerEntries_registersNonObjects(next, prefix, Tail(es))

\* the for..of loop over Object.entries(node)
registerEntries(reg, prefix, es) ==
    IF es = <<>> THEN reg
    ELSE LET key == es[1][1]
             value == es[1][2]
             fullKey == prefix \o Dot \o key
             next == IF value.typeof = "function"
                     THEN Put(reg, fullKey, value.fn)
                     ELSE IF value.truthy /\ value.typeof = "object"
                          THEN register(reg, fullKey, value)
                          ELSE reg
         IN registerEntries(next, prefix, Tail(es))

\* mutation: in production a duplicate name is registered over the first one
create_lenientRegistersAgain(name, keyMap) ==
    IF name \in keyNames /\ IsStrict
    THEN /\ call' = Thrown("create", name, keyMap, <<>>, NoBuilder, DuplicateError(name), 0)
         /\ UNCHANGED <<heap, registryRef, keyNames, nodeEnv, heldRef, clearedNames>>
    ELSE /\ keyNames' = keyNames \cup {name}
         /\ heap' = [heap EXCEPT ![registryRef].props = register(@, name, keyMap)]
         /\ call' = Returned("create", name, keyMap, <<>>, NoBuilder, keyMap, 0)
         /\ UNCHANGED <<registryRef, nodeEnv, heldRef, clearedNames>>

\* mutation: the key map is registered but an empty object is returned
create_returnsEmptyObject(name, keyMap) ==
    IF name \in keyNames
    THEN /\ call' = IF IsStrict
                    THEN Thrown("create", name, keyMap, <<>>, NoBuilder,
                                DuplicateError(name), 0)
                    ELSE Returned("create", name, keyMap, <<>>, NoBuilder, keyMap, 0)
         /\ UNCHANGED <<heap, registryRef, keyNames, nodeEnv, heldRef, clearedNames>>
    ELSE /\ keyNames' = keyNames \cup {name}
         /\ heap' = [heap EXCEPT ![registryRef].props = register(@, name, keyMap)]
         /\ call' = Returned("create", name, keyMap, <<>>, NoBuilder, ObjValue(<<>>), 0)
         /\ UNCHANGED <<registryRef, nodeEnv, heldRef, clearedNames>>

\* mutation: the name of a new namespace is not added to keyNames
create_forgetsName(name, keyMap) ==
    IF name \in keyNames
    THEN /\ call' = IF IsStrict
                    THEN Thrown("create", name, keyMap, <<>>, NoBuilder,
                                DuplicateError(name), 0)
                    ELSE Returned("create", name, keyMap, <<>>, NoBuilder, keyMap, 0)
         /\ UNCHANGED <<heap, registryRef, keyNames, nodeEnv, heldRef, clearedNames>>
    ELSE /\ heap' = [heap EXCEPT ![registryRef].props = register(@, name, keyMap)]
         /\ call' = Returned("create", name, keyMap, <<>>, NoBuilder, keyMap, 0)
         /\ UNCHANGED <<registryRef, keyNames, nodeEnv, heldRef, clearedNames>>

create(name, keyMap) ==
    IF name \in keyNames
    THEN /\ call' = IF IsStrict
                    THEN Thrown("create", name, keyMap, <<>>, NoBuilder,
                                DuplicateError(name), 0)
                    ELSE Returned("create", name, keyMap, <<>>, NoBuilder, keyMap, 0)
         /\ UNCHANGED <<heap, registryRef, keyNames, nodeEnv, heldRef, clearedNames>>
    ELSE /\ keyNames' = keyNames \cup {name}
         /\ heap' = [heap EXCEPT ![registryRef].props = register(@, name, keyMap)]
         /\ call' = Returned("create", name, keyMap, <<>>, NoBuilder, keyMap, 0)
         /\ UNCHANGED <<registryRef, nodeEnv, heldRef, clearedNames>>

(***************************************************************************)
(* QueryKeyManager.getQueryKeys                                            *)
(***************************************************************************)
\* Object.freeze({ ...obj }): a fresh frozen object with obj's own properties
FrozenCopy(obj) == [props |-> obj.props, frozen |-> TRUE]

\* mutation: the registry object itself is handed out
getQueryKeys_returnsRegistry ==
    /\ heap' = [r \in {registryRef} |-> heap[r]]
    /\ heldRef' = registryRef
    /\ call' = Returned("getQueryKeys", <<>>, Undefined, <<>>, NoBuilder, Undefined, 0)
    /\ UNCHANGED <<registryRef, keyNames, nodeEnv, clearedNames>>

\* the caller keeps the returned reference in heldRef
getQueryKeys ==
    LET ref == NewRef({registryRef})
    IN /\ heap' = [r \in {registryRef, ref} |->
                      IF r = ref THEN FrozenCopy(heap[registryRef]) ELSE heap[r]]
       /\ heldRef' = ref
       /\ call' = Returned("getQueryKeys", <<>>, Undefined, <<>>, NoBuilder, Undefined, 0)
       /\ UNCHANGED <<registryRef, keyNames, nodeEnv, clearedNames>>

\* the caller assigns to or deletes a property of the object it was handed;
\* on a frozen object this throws in strict-mode code and is ignored otherwise
mutateSnapshot(kind, key, value, strictCode) ==
    /\ heldRef # NoRef
    /\ IF heap[heldRef].frozen
       THEN /\ heap' = heap
            /\ call' = IF strictCode
                       THEN Thrown(kind, key, Undefined, <<>>, value, FrozenError(key), 0)
                       ELSE Returned(kind, key, Undefined, <<>>, value, Undefined, 0)
       ELSE /\ heap' = [heap EXCEPT ![heldRef].props =
                           IF kind = "set" THEN Put(@, key, value) ELSE Remove(@, key)]
            /\ call' = Returned(kind, key, Undefined, <<>>, value, Undefined, 0)
    /\ UNCHANGED <<registryRef, keyNames, nodeEnv, heldRef, clearedNames>>

(***************************************************************************)
(* QueryKeyManager.clearRegistry                                           *)
(***************************************************************************)
\* mutation: the registry object is replaced but keyNames is not cleared
clearRegistry_keepsNames ==
    LET ref == NewRef({heldRef})
    IN /\ registryRef' = ref
       /\ heap' = [r \in ({heldRef} \cap DOMAIN heap) \cup {ref} |->
                      IF r = ref THEN [props |-> EmptyProps, frozen |-> FALSE] ELSE heap[r]]
       /\ clearedNames' = keyNames
       /\ call' = Returned("clearRegistry", <<>>, Undefined, <<>>, NoBuilder, Undefined, 0)
       /\ UNCHANGED <<keyNames, nodeEnv, heldRef>>

\* mutation: the names are cleared but the registry object is kept
clearRegistry_keepsEntries ==
    /\ keyNames' = {}
    /\ clearedNames' = keyNames
    /\ call' = Returned("clearRegistry", <<>>, Undefined, <<>>, NoBuilder, Undefined, 0)
    /\ UNCHANGED <<heap, registryRef, nodeEnv, heldRef>>

\* mutation: clearing a registry that holds no name is refused
clearRegistry_throwsWhenEmpty ==
    IF keyNames = {}
    THEN /\ call' = Thrown("clearRegistry", <<>>, Undefined, <<>>, NoBuilder,
                           [kind |-> "Registry is empty", key |-> <<>>], 0)
         /\ UNCHANGED <<heap, registryRef, keyNames, nodeEnv, heldRef, clearedNames>>
    ELSE LET ref == NewRef({heldRef})
         IN /\ registryRef' = ref
            /\ heap' = [r \in ({heldRef} \cap DOMAIN heap) \cup {ref} |->
                           IF r = ref THEN [props |-> EmptyProps, frozen |-> FALSE]
                           ELSE heap[r]]
            /\ keyNames' = {}
            /\ clearedNames' = keyNames
            /\ call' = Returned("clearRegistry", <<>>, Undefined, <<>>, NoBuilder,
                                Undefined, 0)
            /\ UNCHANGED <<nodeEnv, heldRef>>

clearRegistry ==
    LET ref == NewRef({heldRef})
    IN /\ registryRef' = ref
       /\ heap' = [r \in ({heldRef} \cap DOMAIN heap) \cup {ref} |->
                      IF r = ref THEN [props |-> EmptyProps, frozen |-> FALSE] ELSE heap[r]]
       /\ keyNames' = {}
       /\ clearedNames' = keyNames
       /\ call' = Returned("clearRegistry", <<>>, Undefined, <<>>, NoBuilder, Undefined, 0)
       /\ UNCHANGED <<nodeEnv, heldRef>>

(***************************************************************************)
(* migrateLegacyKeys                                                       *)
(***************************************************************************)
LegacyNames == {PathABC, OldKey, ValueOfKey}

\* the legacy-key argument: a string is the one-element list, an array is a
\* list (the parameter is declared `string`; at run time nothing checks it)
LegacyArgs == UNION {[1..n -> LegacyNames] : n \in 1..MaxLegacyKeys}

\* mutation: the first element of the argument is looked up
ToPropertyKey_firstElement(arg) == arg[1]

RECURSIVE ToPropertyKey(_)
\* the string an argument becomes as a property key and in a template
\* literal: Array.prototype.toString joins the elements with ","
ToPropertyKey(arg) ==
    IF Len(arg) = 1 THEN arg[1]
    ELSE arg[1] \o Comma \o ToPropertyKey(Tail(arg))

\* mutation: the alias is stored in the registry when there is no conflict
migrateLegacyKeys_storesAlias(legacyKey, newBuilder) ==
    LET warned == IF nodeEnv # "production" THEN 1 ELSE 0
        snapshot == FrozenCopy(heap[registryRef])
        found == Lookup(snapshot.props, ToPropertyKey(legacyKey))
    IN IF Truthy(found)
       THEN /\ call' = Thrown("migrateLegacyKeys", <<>>, Undefined, legacyKey, newBuilder,
                              ConflictError(ToPropertyKey(legacyKey)), warned)
            /\ UNCHANGED <<heap, registryRef, keyNames, nodeEnv, heldRef, clearedNames>>
       ELSE /\ call' = Returned("migrateLegacyKeys", <<>>, Undefined, legacyKey, newBuilder,
                                FnValue(newBuilder), warned)
            /\ heap' = [heap EXCEPT ![registryRef].props =
                           Put(@, ToPropertyKey(legacyKey), newBuilder)]
            /\ UNCHANGED <<registryRef, keyNames, nodeEnv, heldRef, clearedNames>>

\* mutation: the conflict check runs outside production only
migrateLegacyKeys_checksInStrictOnly(legacyKey, newBuilder) ==
    LET warned == IF nodeEnv # "production" THEN 1 ELSE 0
        snapshot == FrozenCopy(heap[registryRef])
        found == Lookup(snapshot.props, ToPropertyKey(legacyKey))
    IN /\ call' = IF Truthy(found) /\ nodeEnv # "production"
                  THEN Thrown("migrateLegacyKeys", <<>>, Undefined, legacyKey, newBuilder,
                              ConflictError(ToPropertyKey(legacyKey)), warned)
                  ELSE Returned("migrateLegacyKeys", <<>>, Undefined, legacyKey, newBuilder,
                                FnValue(newBuilder), warned)
       /\ UNCHANGED <<heap, registryRef, keyNames, nodeEnv, heldRef, clearedNames>>

migrateLegacyKeys(legacyKey, newBuilder) ==
    LET warned == IF nodeEnv # "production" THEN 1 ELSE 0
        snapshot == FrozenCopy(heap[registryRef])
        found == Lookup(snapshot.props, ToPropertyKey(legacyKey))
    IN /\ call' = IF Truthy(found)
                  THEN Thrown("migrateLegacyKeys", <<>>, Undefined, legacyKey, newBuilder,
                              ConflictError(ToPropertyKey(legacyKey)), warned)
                  ELSE Returned("migrateLegacyKeys", <<>>, Undefined, legacyKey, newBuilder,
                                FnValue(newBuilder), warned)
       /\ UNCHANGED <<heap, registryRef, keyNames, nodeEnv, heldRef, clearedNames>>

\* every call counts towards the bound on the length of a run
Count == calls < MaxCalls /\ calls' = calls + 1

\* one call of the public interface, or one use of a returned snapshot
Next ==
    \/ \E name \in Names, keyMap \in Trees : Count /\ create(name, keyMap)
    \/ Count /\ getQueryKeys
    \/ \E kind \in {"set", "delete"}, strictCode \in BOOLEAN :
          Count /\ mutateSnapshot(kind, PathABC, "h", strictCode)
    \/ Count /\ clearRegistry
    \/ \E legacyKey \in LegacyArgs : Count /\ migrateLegacyKeys(legacyKey, "h")

Spec == Init /\ [][Next]_vars

\* the same program started under any value of NODE_ENV
InitAnyEnv ==
    /\ heap = [r \in {1} |-> [props |-> EmptyProps, frozen |-> FALSE]]
    /\ registryRef = 1
    /\ keyNames = {}
    /\ nodeEnv \in AnyNodeEnvValues
    /\ heldRef = NoRef
    /\ call = NoCall
    /\ clearedNames = {}
    /\ calls = 0

SpecAnyEnv == InitAnyEnv /\ [][Next]_vars

(***************************************************************************)
(* Properties.  A step of the model is one call; `call'` describes the     *)
(* call a step makes, unprimed variables the state it was made in.         *)
(***************************************************************************)
CreateStep == call'.op = "create"
FreshCreateStep == CreateStep /\ call'.name \notin keyNames
DuplicateCreateStep == CreateStep /\ call'.name \in keyNames

\* C1: in strict mode (NODE_ENV other than 'production') a create whose name
\* is already in keyNames throws the duplicate-name error and leaves keyNames
\* and registry as they were, whatever the tree is.
C1_DuplicateStrictRejected ==
    [][(DuplicateCreateStep /\ nodeEnv # "production") =>
          /\ call'.outcome = "throw"
          /\ call'.error = DuplicateError(call'.name)
          /\ keyNames' = keyNames
          /\ registry' = registry]_vars

\* a strict duplicate create was rejected on a registry that holds entries,
\* with a tree that would have written a path
C1_Witness ==
    /\ call.op = "create"
    /\ call.outcome = "throw"
    /\ nodeEnv # "production"
    /\ call.name \in keyNames
    /\ registry # EmptyProps
    /\ register(registry, call.name, call.keyMap) # registry

\* C2: a create with a name not yet registered neither removes nor
\* overwrites an entry written by a create with another name: every path of
\* the registry still maps to the builder it mapped to.
C2_DistinctNamesNeverOverwrite ==
    [][FreshCreateStep =>
          \A p \in DOMAIN registry :
              p \in DOMAIN registry' /\ registry'[p] = registry[p]]_vars

RECURSIVE LeafEntries(_, _)
\* the function-valued leaves of a tree, each with its dotted path
LeafEntries(prefix, node) ==
    IF node.typeof = "function" THEN {<<prefix, node.fn>>}
    ELSE IF node.typeof = "object" /\ node.truthy
         THEN UNION {LeafEntries(prefix \o Dot \o node.entries[i][1], node.entries[i][2]) :
                        i \in 1..Len(node.entries)}
         ELSE {}

LeafPaths(prefix, node) == {e[1] : e \in LeafEntries(prefix, node)}

\* C3: a create with a fresh name leaves the registry as it was but for one
\* entry per function-valued leaf, at the leaf's dotted path and holding that
\* leaf; nothing is added elsewhere (not at an intermediate subtree).
C3_OneEntryPerLeaf ==
    [][FreshCreateStep =>
          LET leaves == LeafEntries(call'.name, call'.keyMap)
              paths == LeafPaths(call'.name, call'.keyMap)
          IN /\ DOMAIN registry' = (DOMAIN registry) \cup paths
             /\ \A e \in leaves : registry'[e[1]] = e[2]
             /\ \A p \in (DOMAIN registry) \ paths : registry'[p] = registry[p]]_vars

\* C4: in lenient mode (NODE_ENV = 'production') a create whose name is
\* already in keyNames throws nothing, returns the tree it was given and
\* leaves keyNames and registry unchanged.
C4_DuplicateLenientSkipped ==
    [][(DuplicateCreateStep /\ nodeEnv = "production") =>
          /\ call'.outcome = "return"
          /\ call'.ret = call'.keyMap
          /\ keyNames' = keyNames
          /\ registry' = registry]_vars

\* a lenient create returned without writing the paths of its tree over
\* those of the first registration
C4_Witness ==
    /\ call.op = "create"
    /\ call.outcome = "return"
    /\ nodeEnv = "production"
    /\ call.name \in keyNames
    /\ registry # EmptyProps
    /\ register(registry, call.name, call.keyMap) # registry

\* C5: clearRegistry leaves registry and keyNames empty, and the create that
\* follows it succeeds whatever its name, also in strict mode and also for a
\* name registered before the clear, and registers the paths of its tree.
C5_ClearThenRegisterAgain ==
    [][/\ call'.op = "clearRegistry" =>
            /\ call'.outcome = "return"
            /\ registry' = EmptyProps
            /\ keyNames' = {}
       /\ (call.op = "clearRegistry" /\ CreateStep) =>
            /\ call'.outcome = "return"
            /\ keyNames' = {call'.name}
            /\ \A p \in LeafPaths(call'.name, call'.keyMap) : p \in DOMAIN registry']_vars

\* in strict mode a name cleared away was registered again, with its paths
C5_Witness ==
    /\ call.op = "create"
    /\ call.outcome = "return"
    /\ nodeEnv # "production"
    /\ call.name \in clearedNames
    /\ keyNames = {call.name}
    /\ PathABC \in DOMAIN registry

MigrateStep == call'.op = "migrateLegacyKeys"
\* a migrateLegacyKeys call given one legacy name
MigrateOneStep == MigrateStep /\ Len(call'.legacyKey) = 1

C7_RegisteredPathConflicts ==
    [][(MigrateOneStep /\ call'.legacyKey[1] \in DOMAIN registry) =>
          /\ call'.outcome = "throw"
          /\ call'.error = ConflictError(call'.legacyKey[1])
          /\ call'.legacyKey[1] \in DOMAIN registry'
          /\ registry'[call'.legacyKey[1]] = registry[call'.legacyKey[1]]]_vars

\* in production a registered path was refused as a legacy name, and it
\* holds a builder other than the one offered
C7_Witness ==
    /\ call.op = "migrateLegacyKeys"
    /\ call.outcome = "throw"
    /\ nodeEnv = "production"
    /\ call.legacyKey = <<PathABC>>
    /\ PathABC \in DOMAIN registry
    /\ registry[PathABC] # call.newBuilder

\* the properties of the snapshot the caller holds
held == heap[heldRef].props

\* C8: the object getQueryKeys returns holds the entries the registry has at
\* the call and is not the registry object; a caller's attempt to set or
\* delete one of its properties changes neither it nor the registry; a later
\* create, migrateLegacyKeys or clearRegistry leaves it as it was.
C8_SnapshotIsolated ==
    [][/\ call'.op = "getQueryKeys" =>
            /\ heldRef' # NoRef
            /\ heldRef' # registryRef'
            /\ held' = registry
            /\ registry' = registry
       /\ (heldRef # NoRef /\ call'.op \in {"set", "delete"}) =>
            /\ heldRef' = heldRef
            /\ held' = held
            /\ registry' = registry
       /\ (heldRef # NoRef /\ call'.op \in {"create", "migrateLegacyKeys", "clearRegistry"}) =>
            /\ heldRef' = heldRef
            /\ held' = held]_vars

\* the caller tried to set a property of a snapshot that no longer equals
\* the registry; snapshot and registry both lack the property
C8_Witness ==
    /\ heldRef # NoRef
    /\ call.op = "set"
    /\ held # registry
    /\ held # EmptyProps
    /\ call.name \notin DOMAIN held
    /\ call.name \notin DOMAIN registry

\* arguments a builder is called with
Args == {"42", "123"}

\* C9: a create call that returns (fresh name, or duplicate name in lenient
\* mode) returns the tree it was given: the same keys in the same order and
\* the same builder at every position, so that every builder of the result
\* yields the key the builder of the tree yields.
C9_ReturnsTheTree ==
    [][(CreateStep /\ call'.outcome = "return") =>
          /\ call'.ret = call'.keyMap
          /\ LeafEntries(<<>>, call'.ret) = LeafEntries(<<>>, call'.keyMap)
          /\ \A e \in LeafEntries(<<>>, call'.keyMap) :
                \E r \in LeafEntries(<<>>, call'.ret) :
                    /\ r[1] = e[1]
                    /\ \A arg \in Args : Invoke(r[2], arg) = Invoke(e[2], arg)]_vars

\* a fresh create returned a nested tree whose builder was registered
C9_Witness ==
    /\ call.op = "create"
    /\ call.outcome = "return"
    /\ call.ret = TreeNested
    /\ call.name = NameA
    /\ PathABC \in DOMAIN registry
    /\ Invoke(registry[PathABC], "42") = <<"admin", "users", "list", "42">>

\* the first position of a list at which a registered path stands
FirstRegistered(arg, reg) ==
    CHOOSE i \in 1..Len(arg) :
        /\ arg[i] \in DOMAIN reg
        /\ \A j \in 1..(i - 1) : arg[j] \notin DOMAIN reg

RECURSIVE CommaJoined(_)
\* the names of a list written one after the other with "," between them
CommaJoined(arg) ==
    IF Len(arg) = 1 THEN arg[1]
    ELSE CommaJoined(SubSeq(arg, 1, Len(arg) - 1)) \o <<",">> \o arg[Len(arg)]

C11_NameRegisteredOnce ==
    [][/\ FreshCreateStep => call'.name \in keyNames'
       /\ call'.op # "clearRegistry" => keyNames \subseteq keyNames'
       /\ DuplicateCreateStep => (keyNames' = keyNames /\ registry' = registry)]_vars

\* after a getQueryKeys in between, a second create with a registered name
\* and a tree that would have written a path changed nothing
C11_Witness ==
    /\ call.op = "create"
    /\ call.name \in keyNames
    /\ heldRef # NoRef
    /\ held = registry
    /\ registry # EmptyProps
    /\ register(registry, call.name, call.keyMap) # registry


\* C12: the mode is strict unless NODE_ENV is exactly 'production': with
\* 'development', 'test', an unrecognised value or no value a create with a
\* registered name throws the duplicate-name error; with 'production', and
\* only then, it returns its tree and changes nothing.
C12_StrictUnlessProduction ==
    [][DuplicateCreateStep =>
          IF nodeEnv = "production"
          THEN /\ call'.outcome = "return"
               /\ call'.ret = call'.keyMap
               /\ keyNames' = keyNames
               /\ registry' = registry
          ELSE /\ call'.outcome = "throw"
               /\ call'.error = DuplicateError(call'.name)]_vars

\* a duplicate create threw under a NODE_ENV that is neither 'production'
\* nor one of the documented strict values
C12_Witness ==
    /\ call.op = "create"
    /\ call.outcome = "throw"
    /\ call.error = DuplicateError(call.name)
    /\ call.name \in keyNames
    /\ nodeEnv \notin {"production", "development", "test"}


RECURSIVE InertPaths(_, _)
\* the dotted paths of the leaves of a tree that are neither functions nor
\* nested trees: strings, numbers, booleans, null
InertPaths(prefix, node) ==
    IF node.typeof = "function" THEN {}
    ELSE IF node.typeof = "object" /\ node.truthy
         THEN UNION {InertPaths(prefix \o Dot \o node.entries[i][1], node.entries[i][2]) :
                        i \in 1..Len(node.entries)}
         ELSE {prefix}

\* C13: leaves that are neither functions nor nested trees are inert: a
\* create with a fresh name returns, every entry it adds is at the path of a
\* function-valued leaf, none is at the path of an inert leaf, and when the
\* tree has no function-valued leaf the name joins keyNames and the registry
\* is unchanged.
C13_InertLeavesIgnored ==
    [][FreshCreateStep =>
          LET leafPaths == LeafPaths(call'.name, call'.keyMap)
              inert == InertPaths(call'.name, call'.keyMap)
          IN /\ call'.outcome = "return"
             /\ (DOMAIN registry') \ (DOMAIN registry) \subseteq leafPaths
             /\ \A p \in inert \ (leafPaths \cup DOMAIN registry) : p \notin DOMAIN registry'
             /\ leafPaths = {} =>
                   /\ keyNames' = keyNames \cup {call'.name}
                   /\ registry' = registry]_vars

\* a tree of inert leaves only was registered under a fresh name beside an
\* earlier namespace: the name is in keyNames, no inert path in the registry
C13_Witness ==
    /\ call.op = "create"
    /\ call.outcome = "return"
    /\ call.keyMap = TreeInert
    /\ keyNames = {NameA, call.name}
    /\ call.name # NameA
    /\ registry # EmptyProps
    /\ InertPaths(call.name, TreeInert) # {}
    /\ InertPaths(call.name, TreeInert) \cap DOMAIN registry = {}


\* what a migrateLegacyKeys call does, as a function of the registry and the
\* arguments alone: NODE_ENV does not occur in it
MigrateOutcome(reg, legacyKey, newBuilder) ==
    IF Truthy(Lookup(reg, CommaJoined(legacyKey)))
    THEN [outcome |-> "throw", ret |-> Undefined,
          error |-> ConflictError(CommaJoined(legacyKey))]
    ELSE [outcome |-> "return", ret |-> FnValue(newBuilder), error |-> NoError]

\* C14: a migrateLegacyKeys call emits one notice in strict mode, whatever
\* the number of names, and none in lenient mode; what it returns or throws
\* depends on the registry and the arguments only, so it is the same in both
\* modes, and registry and keyNames are left as they were in both.
C14_NoticeDoesNotSteer ==
    [][MigrateStep =>
          LET expected == MigrateOutcome(registry, call'.legacyKey, call'.newBuilder)
          IN /\ call'.warned = IF nodeEnv = "production" THEN 0 ELSE 1
             /\ call'.outcome = expected.outcome
             /\ call'.ret = expected.ret
             /\ call'.error = expected.error
             /\ registry' = registry
             /\ keyNames' = keyNames]_vars

\* in strict mode a call with two names, the joined key unregistered,
\* emitted one notice and returned the builder
C14_Witness ==
    /\ call.op = "migrateLegacyKeys"
    /\ nodeEnv # "production"
    /\ Len(call.legacyKey) = 2
    /\ call.warned = 1
    /\ call.outcome = "return"
    /\ registry # EmptyProps


\* C15: clearRegistry can be called in every state and throws nothing; it
\* leaves registry and keyNames empty, and a clearRegistry that directly
\* follows a clearRegistry leaves registry, keyNames and a snapshot held by
\* the caller as the first one left them.
C15_ClearIsIdempotent ==
    /\ [](calls < MaxCalls => ENABLED (Count /\ clearRegistry))
    /\ [][call'.op = "clearRegistry" =>
             /\ call'.outcome = "return"
             /\ registry' = EmptyProps
             /\ keyNames' = {}
             /\ call.op = "clearRegistry" =>
                   /\ registry' = registry
                   /\ keyNames' = keyNames
                   /\ heldRef' = heldRef
                   /\ heap' = heap]_vars

\* the fourth call is a clearRegistry on a registry without names, while the
\* caller holds a snapshot with entries: a create, a getQueryKeys and a
\* clearRegistry came before it, so it is the second clearRegistry in a row
C15_Witness ==
    /\ call.op = "clearRegistry"
    /\ call.outcome = "return"
    /\ calls = 4
    /\ clearedNames = {}
    /\ heldRef # NoRef
    /\ held # EmptyProps
    /\ registry = EmptyProps
    /\ keyNames = {}


\* a path belongs to a namespace: it is the name, or the name, a "." and more
BelongsTo(p, n) ==
    \/ p = n
    \/ Len(p) >= Len(n) + 1 /\ SubSeq(p, 1, Len(n) + 1) = n \o <<".">>

\* C16: in every reachable state each key of the registry belongs to a
\* namespace of keyNames: it is a registered name or starts with a registered
\* name and "."; so the registry is empty whenever keyNames is.
C16_PathsBelongToNames ==
    /\ \A p \in DOMAIN registry : \E n \in keyNames : BelongsTo(p, n)
    /\ keyNames = {} => registry = EmptyProps

\* after a migrateLegacyKeys call that returned, the registry holds a key
\* that is a registered name and a key below a registered name, and nothing
\* under the legacy name
C16_Witness ==
    /\ call.op = "migrateLegacyKeys"
    /\ call.outcome = "return"
    /\ call.legacyKey = <<OldKey>>
    /\ NameAB \in DOMAIN registry
    /\ NameAB \in keyNames
    /\ PathABC \in DOMAIN registry
    /\ OldKey \notin DOMAIN registry

====
